---- MODULE Spec2Model ----
(***************************************************************************)
(* DailyRewardsDistributor: the transaction-submission pipeline of         *)
(* RewardsContract (src/src/contract.rs) and the scheduled run that drives *)
(* it (src/src/main.rs), as a state machine.                               *)
(*                                                                         *)
(* U256 values are kept at their full 256-bit width as 16 little-endian    *)
(* limbs of 16 bits, with the overflow panic of the U256 operators.        *)
(***************************************************************************)
EXTENDS Integers, Sequences, FiniteSets, TLC

(***************************************************************************)
(* Bounds of the model.                                                    *)
(***************************************************************************)
\* longest delay, in seconds, one receipt poll takes on the clock
MaxLatency == 1
\* most known substrings one provider error text contains
MaxPatterns == 2
\* largest transaction count the chain reports for the signing address
MaxNonce == 1
\* most job runs the scheduler spawns
MaxTasks == 2

(***************************************************************************)
(* ethers::types::U256                                                     *)
(***************************************************************************)
LimbBase == 65536
NumLimbs == 16

U256Zero == [i \in 1..NumLimbs |-> 0]
U256Max == [i \in 1..NumLimbs |-> LimbBase - 1]

\* U256::from(n) for a machine integer n
U256From(n) ==
    [i \in 1..NumLimbs |->
        IF i = 1 THEN n % LimbBase
        ELSE IF i = 2 THEN (n \div LimbBase) % LimbBase
        ELSE 0]

RECURSIVE MulCarry(_, _, _, _)
\* limbs i..NumLimbs of x * k plus the carry into limb i, then the carry out
MulCarry(x, k, i, carry) ==
    IF i > NumLimbs THEN <<carry>>
    ELSE LET t == x[i] * k + carry
         IN  <<t % LimbBase>> \o MulCarry(x, k, i + 1, t \div LimbBase)

\* U256 * k: the operator panics when the product does not fit in 256 bits
U256Mul(x, k) ==
    LET r == MulCarry(x, k, 1, 0)
    IN  [overflow |-> r[NumLimbs + 1] # 0,
         val |-> [i \in 1..NumLimbs |-> r[i]]]

RECURSIVE DivRem(_, _, _, _)
\* quotient limbs i..1 of x / d, most significant first, given the remainder so far
DivRem(x, d, i, rem) ==
    IF i < 1 THEN << >>
    ELSE LET t == rem * LimbBase + x[i]
         IN  <<t \div d>> \o DivRem(x, d, i - 1, t % d)

\* U256 / d for a small divisor d > 0 (truncating)
U256Div(x, d) ==
    LET q == DivRem(x, d, NumLimbs, 0)
    IN  [i \in 1..NumLimbs |-> q[NumLimbs + 1 - i]]

RECURSIVE LessFrom(_, _, _)
LessFrom(a, b, i) ==
    IF i < 1 THEN FALSE
    ELSE IF a[i] # b[i] THEN a[i] < b[i]
    ELSE LessFrom(a, b, i - 1)

\* a < b
U256Less(a, b) == LessFrom(a, b, NumLimbs)

\* a <= b
U256Leq(a, b) == ~U256Less(b, a)

\* std::cmp::min(a, b)
U256Min(a, b) == IF U256Leq(a, b) THEN a ELSE b

RECURSIVE MulPow10(_, _)
\* x * 10^n, with the overflow flag
MulPow10(x, n) ==
    IF n = 0 THEN [overflow |-> FALSE, val |-> x]
    ELSE LET m == U256Mul(x, 10)
             r == MulPow10(m.val, n - 1)
         IN  [overflow |-> m.overflow \/ r.overflow, val |-> r.val]

\* decimals of the "gwei" unit in ethers::utils::parse_units
GweiDecimals == 9

\* ethers::utils::parse_units(amount, "gwei") converted to U256 by try_into()
ParseUnitsGwei(amount) == MulPow10(U256From(amount), GweiDecimals)

(***************************************************************************)
(* Values the configuration and the chain can supply.                      *)
(***************************************************************************)
None == [some |-> FALSE, val |-> U256Zero]
Some(v) == [some |-> TRUE, val |-> v]

\* Config.chain_id: the four local/dev ids and two others
ChainIds == {1, 1337, 1338, 5777, 31337, 31338}
\* Config.gas_limit: limits a node accepts in a call (below 2^64)
GasLimits == {U256From(500000), U256From(300000)}
\* Config.gas_price: absent, zero, or 25 gwei
GasPrices == {None, Some(U256Zero), Some(ParseUnitsGwei(25).val)}

\* what eth_estimateGas can answer: any U256, or an error
Estimates == {U256From(200000), U256From(333333), U256Max}
EstimateOutcomes ==
    {[st |-> "err", val |-> U256Zero]} \cup {[st |-> "ok", val |-> g] : g \in Estimates}

\* what eth_gasPrice can answer: any U256, or an error
LivePrices ==
    {U256Zero, U256From(19), ParseUnitsGwei(20).val, ParseUnitsGwei(100).val,
     [i \in 1..NumLimbs |-> IF i = NumLimbs THEN 1024 ELSE 0], U256Max}
GasPriceOutcomes ==
    {[st |-> "err", val |-> U256Zero]} \cup {[st |-> "ok", val |-> p] : p \in LivePrices}
\* the request was not made
NoQuery == [st |-> "none", val |-> U256Zero]

\* substrings parse_revert_reason looks for in the Debug rendering of an error
Patterns ==
    {"revert", "Ownable: caller is not the owner", "Pausable: paused", "Too early",
     "time", "Insufficient", "balance", "Not active"}
\* a provider error, by the known substrings its Debug rendering contains
ProviderErrors == {[dbg |-> d] : d \in {x \in SUBSET Patterns : Cardinality(x) <= MaxPatterns}}
NoCause == [dbg |-> {}]
\* outcome of the read-only call
CallOutcomes == {[ok |-> TRUE, err |-> NoCause]} \cup {[ok |-> FALSE, err |-> e] : e \in ProviderErrors}

\* TransactionReceipt.status: Option<U64>
ReceiptStatuses == {[some |-> FALSE, val |-> 0]} \cup {[some |-> TRUE, val |-> v] : v \in {0, 1, 2}}
NoReceipt == [some |-> FALSE, status |-> [some |-> FALSE, val |-> 0]]
\* outcomes of get_transaction: Err, Ok(None), Ok(Some(tx))
TransactionOutcomes == {"err", "absent", "some"}

(***************************************************************************)
(* State                                                                   *)
(***************************************************************************)
VARIABLES
    caller,          \* who runs the pipeline: the scheduled job or manual_distribute
    chain_id,        \* RewardsContract.chain_id
    gas_limit,       \* RewardsContract.gas_limit
    gas_price,       \* RewardsContract.gas_price: Option<U256>
    pc,              \* where the run stands
    calls,           \* the RPC requests the run has issued, in order
    logged,          \* the log lines the run has written
    sim_rpc,         \* what the read-only call answered: "none", "ok" or "err"
    sim_request,     \* the TransactionRequest of the read-only call
    sim_result,      \* what the simulation (gateway step or dry run) returned
    sim_error,       \* simulate_distribution: the error e of a failed read-only call
    est_rpc,         \* what eth_estimateGas answered
    gas_estimate,    \* distribute_daily_rewards: gas_estimate
    gas_with_buffer, \* distribute_daily_rewards: gas_with_buffer
    nonce,           \* build_legacy_transaction: nonce
    price_rpc,       \* what eth_gasPrice answered
    tx_request,      \* the TransactionRequest built, and then sent
    tx_hash,         \* the hash send_transaction returned
    elapsed,         \* wait_for_confirmation: start_time.elapsed(), in seconds
    rpc_delay,       \* the seconds of elapsed that were spent inside receipt polls
    receipt,         \* a receipt found by a poll
    lookup_rpc,      \* what get_transaction answered after a failed receipt
    submit_result,   \* what RewardsContract::distribute_daily_rewards returned
    wait_result,     \* what wait_for_confirmation returned
    run_result,      \* what main.rs distribute_daily_rewards returned
    contract_status, \* get_contract_status: the ContractStatus being filled
    status_reads,    \* get_contract_status: the answers of the reads made so far
    registered,      \* the jobs added to the JobScheduler
    process_up,      \* the process is running
    tasks,           \* the job runs the scheduler has spawned
    chain_count,     \* the chain: transaction count of the signing address (latest block)
    sent,            \* nonces of the transactions the node accepted from the process
    overlapped       \* a trigger has fired while an earlier run was in progress

config == <<chain_id, gas_limit, gas_price>>
locals == <<sim_rpc, sim_request, sim_result, sim_error, est_rpc, gas_estimate, gas_with_buffer, nonce, price_rpc, tx_request, tx_hash>>
timing == <<elapsed, rpc_delay>>
results == <<receipt, lookup_rpc, submit_result, wait_result, run_result>>
snapshot == <<contract_status, status_reads>>
sched == <<registered, process_up, tasks, chain_count, sent, overlapped>>
vars == <<caller, config, pc, calls, logged, locals, timing, results, snapshot, sched>>

NoTx ==
    [some |-> FALSE, to |-> "none", value |-> U256Zero, gas |-> U256Zero,
     gas_price |-> U256Zero, data |-> "none", nonce |-> 0, chain_id |-> 0]
\* no read-only call has been built
NoRequest ==
    [some |-> FALSE, from |-> "none", to |-> "none", data |-> "none", gas |-> None,
     gas_price |-> None]
NoResult == [st |-> "none", kind |-> "none", reason |-> "none", cause |-> NoCause]
Ok == [st |-> "Ok", kind |-> "none", reason |-> "none", cause |-> NoCause]
Err(kind, reason, cause) == [st |-> "Err", kind |-> kind, reason |-> reason, cause |-> cause]
\* the task panicked: nothing is returned
Panic(kind) == [st |-> "Panic", kind |-> kind, reason |-> "none", cause |-> NoCause]

(***************************************************************************)
(* Pure parts of RewardsContract                                           *)
(***************************************************************************)
\* faulty variant: one of the four ids is left out
is_local_development_network_without_5777(cid) == cid \in {1337, 31337, 1338}

is_local_development_network(cid) == cid \in {1337, 31337, 1338, 5777}

\* faulty variant: the patterns are matched in any error text, "revert" or not
parse_revert_reason_any_text(e) ==
    IF "Ownable: caller is not the owner" \in e.dbg THEN "OnlyOwner"
    ELSE IF "Pausable: paused" \in e.dbg THEN "Paused"
    ELSE IF "Too early" \in e.dbg \/ "time" \in e.dbg THEN "TooEarly"
    ELSE IF "Insufficient" \in e.dbg \/ "balance" \in e.dbg THEN "InsufficientBalance"
    ELSE IF "Not active" \in e.dbg THEN "NotActive"
    ELSE "none"

\* faulty variant: the paused pattern is looked for before the ownership pattern
parse_revert_reason_paused_first(e) ==
    IF "revert" \in e.dbg
    THEN IF "Pausable: paused" \in e.dbg THEN "Paused"
         ELSE IF "Ownable: caller is not the owner" \in e.dbg THEN "OnlyOwner"
         ELSE IF "Too early" \in e.dbg \/ "time" \in e.dbg THEN "TooEarly"
         ELSE IF "Insufficient" \in e.dbg \/ "balance" \in e.dbg THEN "InsufficientBalance"
         ELSE IF "Not active" \in e.dbg THEN "NotActive"
         ELSE "none"
    ELSE "none"

\* the classified reason, or "none" for Option::None
parse_revert_reason(e) ==
    IF "revert" \in e.dbg
    THEN IF "Ownable: caller is not the owner" \in e.dbg THEN "OnlyOwner"
         ELSE IF "Pausable: paused" \in e.dbg THEN "Paused"
         ELSE IF "Too early" \in e.dbg \/ "time" \in e.dbg THEN "TooEarly"
         ELSE IF "Insufficient" \in e.dbg \/ "balance" \in e.dbg THEN "InsufficientBalance"
         ELSE IF "Not active" \in e.dbg THEN "NotActive"
         ELSE "none"
    ELSE "none"

\* the TransactionRequest simulate_distribution hands to eth_call
simulate_distribution_request(limit, price) ==
    [some |-> TRUE, from |-> "signer", to |-> "contract", data |-> "distributeDailyRewards()",
     gas |-> Some(limit), gas_price |-> price]

\* the TransactionRequest ContractDebugger::simulate_transaction hands to eth_call:
\* gas_price is left to Default::default()
simulate_transaction_request(limit) ==
    [some |-> TRUE, from |-> "signer", to |-> "contract", data |-> "distributeDailyRewards()",
     gas |-> Some(limit), gas_price |-> None]

\* the result of ContractDebugger::simulate_transaction for an outcome of the
\* read-only call: the error is wrapped as it is
simulate_transaction(out) ==
    IF out.ok THEN Ok ELSE Err("DryRunFailed", "none", out.err)

\* faulty variant: an error that parse_revert_reason cannot classify is let through
simulate_distribution_unclassified_passes(out) ==
    IF out.ok THEN Ok
    ELSE IF parse_revert_reason(out.err) # "none"
         THEN Err("SimulationRejected", parse_revert_reason(out.err), NoCause)
         ELSE Ok

\* the result of simulate_distribution for an outcome of the read-only call
simulate_distribution(out) ==
    IF out.ok THEN Ok
    ELSE IF parse_revert_reason(out.err) # "none"
         THEN Err("SimulationRejected", parse_revert_reason(out.err), NoCause)
         ELSE Err("SimulationFailed", "none", out.err)

\* outcomes of the eight status reads
BoolReads == {[ok |-> FALSE, val |-> FALSE], [ok |-> TRUE, val |-> FALSE], [ok |-> TRUE, val |-> TRUE]}
AddressReads == {[ok |-> FALSE, val |-> "0x0"]} \cup {[ok |-> TRUE, val |-> a] : a \in {"0x0", "signer", "other"}}
U256Reads == {[ok |-> FALSE, val |-> U256Zero], [ok |-> TRUE, val |-> U256Zero], [ok |-> TRUE, val |-> U256From(1000)]}
StatusReads ==
    [is_active : BoolReads, owner : AddressReads, last_distribution_time : U256Reads,
     paused : BoolReads, can_distribute : BoolReads, get_rewards_pool : U256Reads,
     total_rewards : U256Reads, rewards_per_day : U256Reads]

\* the eight reads, in the order get_contract_status issues them
StatusCalls ==
    <<"eth_call:isActive", "eth_call:owner", "eth_call:lastDistributionTime",
      "eth_call:paused", "eth_call:canDistribute", "eth_call:getRewardsPool",
      "eth_call:totalRewards", "eth_call:rewardsPerDay">>

\* ContractStatus::default() with the fields whose read succeeded filled in
get_contract_status(reads) ==
    [is_active |-> IF reads.is_active.ok THEN reads.is_active.val ELSE FALSE,
     is_paused |-> IF reads.paused.ok THEN reads.paused.val ELSE FALSE,
     can_distribute |-> IF reads.can_distribute.ok THEN reads.can_distribute.val ELSE FALSE,
     owner |-> IF reads.owner.ok THEN reads.owner.val ELSE "0x0",
     last_distribution_time |->
         IF reads.last_distribution_time.ok THEN Some(reads.last_distribution_time.val) ELSE None,
     rewards_pool |-> IF reads.get_rewards_pool.ok THEN reads.get_rewards_pool.val ELSE U256Zero,
     total_rewards |-> IF reads.total_rewards.ok THEN Some(reads.total_rewards.val) ELSE None,
     rewards_per_day |-> IF reads.rewards_per_day.ok THEN Some(reads.rewards_per_day.val) ELSE None]

\* faulty variant: the commented-out checks are in force
pre_distribution_checks_enforced(status) ==
    IF ~status.is_active THEN Err("PreflightFailed", "NotActive", NoCause)
    ELSE IF status.is_paused THEN Err("PreflightFailed", "Paused", NoCause)
    ELSE IF ~status.can_distribute THEN Err("PreflightFailed", "TooEarly", NoCause)
    ELSE IF status.rewards_pool = U256Zero THEN Err("PreflightFailed", "InsufficientBalance", NoCause)
    ELSE Ok

\* the result of pre_distribution_checks for a status snapshot: every check is commented out
pre_distribution_checks(status) == Ok

\* estimate_gas_safely: Ok(estimate), or Ok(self.gas_limit) when the estimator fails
estimate_gas_safely(out, limit) ==
    [ok |-> TRUE, val |-> IF out.st = "ok" THEN out.val ELSE limit]

\* faulty variant: a failed estimate leaves the default U256 instead of the limit
GasEstimateDefaultsToZero(out, limit) ==
    IF out.st = "ok" THEN out.val ELSE U256Zero

\* distribute_daily_rewards: gas_estimate
GasEstimate(out, limit) ==
    LET r == estimate_gas_safely(out, limit)
    IN  IF r.ok THEN r.val ELSE limit

\* distribute_daily_rewards: gas_with_buffer, with the overflow of the multiplication
GasWithBuffer(estimate, cid) ==
    IF is_local_development_network(cid)
    THEN [overflow |-> U256Mul(estimate, 150).overflow,
          val |-> U256Div(U256Mul(estimate, 150).val, 100)]
    ELSE [overflow |-> U256Mul(estimate, 120).overflow,
          val |-> U256Div(U256Mul(estimate, 120).val, 100)]

\* get_safe_gas_price, Ok(network_price) arm: "ok" with the price, "err" when
\* parse_units fails, "panic" when network_price * 110 overflows
live_gas_price(network_price, cid) ==
    IF is_local_development_network(cid)
    THEN IF ParseUnitsGwei(20).overflow THEN [st |-> "err", val |-> U256Zero]
         ELSE [st |-> "ok", val |-> U256Min(network_price, ParseUnitsGwei(20).val)]
    ELSE IF U256Mul(network_price, 110).overflow THEN [st |-> "panic", val |-> U256Zero]
         ELSE [st |-> "ok", val |-> U256Div(U256Mul(network_price, 110).val, 100)]

\* faulty variant: one default for every chain id
default_gas_price_same_everywhere(cid) ==
    IF ParseUnitsGwei(20).overflow THEN [st |-> "err", val |-> U256Zero]
    ELSE [st |-> "ok", val |-> ParseUnitsGwei(20).val]

\* get_safe_gas_price, Err(_) arm: the default price
default_gas_price(cid) ==
    IF is_local_development_network(cid)
    THEN IF ParseUnitsGwei(20).overflow THEN [st |-> "err", val |-> U256Zero]
         ELSE [st |-> "ok", val |-> ParseUnitsGwei(20).val]
    ELSE IF ParseUnitsGwei(30).overflow THEN [st |-> "err", val |-> U256Zero]
         ELSE [st |-> "ok", val |-> ParseUnitsGwei(30).val]

\* faulty variant: the local/dev ceiling is applied to the configured price too
get_safe_gas_price_caps_configured(configured, cid, live) ==
    IF configured.some
    THEN IF is_local_development_network(cid)
         THEN [st |-> "ok", val |-> U256Min(configured.val, ParseUnitsGwei(20).val)]
         ELSE [st |-> "ok", val |-> configured.val]
    ELSE IF live.st = "ok" THEN live_gas_price(live.val, cid)
    ELSE default_gas_price(cid)

\* get_safe_gas_price; live is the outcome of get_gas_price, read only when no
\* price is configured
get_safe_gas_price(configured, cid, live) ==
    IF configured.some THEN [st |-> "ok", val |-> configured.val]
    ELSE IF live.st = "ok" THEN live_gas_price(live.val, cid)
    ELSE default_gas_price(cid)

\* the TransactionRequest of build_legacy_transaction
build_legacy_transaction(limit, price, n, cid) ==
    [some |-> TRUE, to |-> "contract", value |-> U256Zero, gas |-> limit,
     gas_price |-> price, data |-> "distributeDailyRewards()", nonce |-> n,
     chain_id |-> cid]

\* faulty variant: a failed get_transaction is propagated
receipt_result_lookup_propagated(status, lookup) ==
    IF lookup = "err" THEN Err("TransactionLookupFailed", "none", NoCause) ELSE Ok

\* wait_for_confirmation: what a poll that found a receipt returns, for the receipt's
\* status and the answer of the get_transaction that follows a status other than 1
\* ("none" when no transaction was looked up)
receipt_result(status, lookup) == Ok

\* wait_for_confirmation: receipt.status == Some(U64::from(1))
is_success(status) == status = [some |-> TRUE, val |-> 1]

\* wait_for_confirmation: the lines it logs for a receipt
receipt_lines(status, lookup) ==
    IF is_success(status) THEN {"tx_success"}
    ELSE {"tx_failed"} \cup (IF lookup = "some" THEN {"tx_details"} ELSE {})

\* the callers of the pipeline: main.rs distribute_daily_rewards, which the jobs
\* run, and ContractDebugger::manual_distribute
Callers == {"job", "manual"}

\* the line the caller logs when the submission returned an error: error! in
\* main.rs, info! in manual_distribute
failure_line(c) == IF c = "manual" THEN "send_failed" ELSE "run_failed"

\* the lines the caller logs for what wait_for_confirmation returned: main.rs has
\* `if let Ok(receipt)` with no else, manual_distribute logs the error too
run_lines(c, r) ==
    IF r.st = "Ok" THEN {"confirmed"}
    ELSE IF c = "manual" THEN {"wait_failed"} ELSE {}

\* faulty variant: the error of the wait is returned by the caller
run_result_after_wait_propagated(c, r) == IF r.st = "Err" THEN r ELSE Ok

\* what the caller returns once wait_for_confirmation has returned r
run_result_after_wait(c, r) == Ok

\* wait_for_confirmation: timeout, in seconds
Timeout(cid) == IF is_local_development_network(cid) THEN 60 ELSE 300

\* faulty variant: one second between the polls on every network
CheckIntervalOneSecond(cid) == 1

\* wait_for_confirmation: check_interval, in seconds
CheckInterval(cid) == IF is_local_development_network(cid) THEN 1 ELSE 5

\* faulty variant: the timeout is reached, not exceeded
TimedOutWhenReached(e, cid) == e >= Timeout(cid)

\* wait_for_confirmation: start_time.elapsed() > timeout
TimedOut(e, cid) == e > Timeout(cid)

(***************************************************************************)
(* The run: main.rs distribute_daily_rewards, started by a scheduler job   *)
(***************************************************************************)
\* ContractStatus::default()
ContractStatusDefault ==
    [is_active |-> FALSE, is_paused |-> FALSE, can_distribute |-> FALSE, owner |-> "0x0",
     last_distribution_time |-> None, rewards_pool |-> U256Zero, total_rewards |-> None,
     rewards_per_day |-> None]

\* the jobs main registers: the daily job, and the test job under cfg(debug_assertions)
Jobs == {"daily", "test"}
\* a slot of the scheduler in which no job run has been spawned
NoTask ==
    [job |-> "none", phase |-> "idle", nonce |-> 0, tx |-> "none", result |-> "none",
     wait |-> "none", log |-> "none"]

\* no snapshot is being read
SnapshotIdle ==
    /\ contract_status = ContractStatusDefault
    /\ status_reads = << >>

\* the scheduler and the chain as one run at a time sees them
SchedIdle ==
    /\ registered = {"daily"}
    /\ process_up = TRUE
    /\ tasks = [t \in 1..MaxTasks |-> NoTask]
    /\ chain_count = 0
    /\ sent = << >>
    /\ overlapped = FALSE

Init ==
    /\ caller = "job"
    /\ SnapshotIdle
    /\ SchedIdle
    /\ chain_id \in ChainIds
    /\ gas_limit \in GasLimits
    /\ gas_price \in GasPrices
    /\ pc = "idle"
    /\ calls = << >>
    /\ logged = {}
    /\ sim_rpc = "none"
    /\ sim_request = NoRequest
    /\ sim_result = NoResult
    /\ sim_error = NoCause
    /\ est_rpc = NoQuery
    /\ gas_estimate = U256Zero
    /\ gas_with_buffer = U256Zero
    /\ nonce = 0
    /\ price_rpc = NoQuery
    /\ tx_request = NoTx
    /\ tx_hash = "none"
    /\ elapsed = 0
    /\ rpc_delay = 0
    /\ receipt = NoReceipt
    /\ lookup_rpc = "none"
    /\ submit_result = NoResult
    /\ wait_result = NoResult
    /\ run_result = NoResult

\* a job fires and calls distribute_daily_rewards(contract); one run at a time
StartRun ==
    /\ pc \in {"idle", "done", "panicked"}
    /\ pc' = "pre_checks"
    /\ calls' = << >>
    /\ logged' = {}
    /\ sim_rpc' = "none"
    /\ sim_request' = NoRequest
    /\ sim_result' = NoResult
    /\ sim_error' = NoCause
    /\ est_rpc' = NoQuery
    /\ gas_estimate' = U256Zero
    /\ gas_with_buffer' = U256Zero
    /\ nonce' = 0
    /\ price_rpc' = NoQuery
    /\ tx_request' = NoTx
    /\ tx_hash' = "none"
    /\ elapsed' = 0
    /\ rpc_delay' = 0
    /\ receipt' = NoReceipt
    /\ lookup_rpc' = "none"
    /\ submit_result' = NoResult
    /\ wait_result' = NoResult
    /\ run_result' = NoResult
    /\ UNCHANGED <<caller, config, snapshot, sched>>

\* RewardsContract::distribute_daily_rewards returns Err(e); main.rs logs it and returns Err(e)
SubmissionFails(e) ==
    /\ submit_result' = e
    /\ run_result' = e
    /\ pc' = "done"

\* step 1: pre_distribution_checks reads the status snapshot and returns
PreDistributionChecks ==
    /\ pc = "pre_checks"
    /\ \E reads \in StatusReads :
          LET r == pre_distribution_checks(get_contract_status(reads))
          IN  IF r.st = "Ok"
              THEN /\ pc' = "simulate"
                   /\ logged' = logged
                   /\ UNCHANGED <<submit_result, run_result>>
              ELSE /\ SubmissionFails(r)
                   /\ logged' = logged \cup {failure_line(caller)}
    /\ calls' = calls \o StatusCalls
    /\ UNCHANGED <<caller, config, snapshot, sched, locals, timing, receipt, lookup_rpc, wait_result>>

\* step 2: simulate_distribution, the read-only call
SimulateDistribution ==
    /\ pc = "simulate"
    /\ calls' = Append(calls, "eth_call:distributeDailyRewards")
    /\ \E out \in CallOutcomes :
          LET r == simulate_distribution(out)
          IN  /\ sim_rpc' = IF out.ok THEN "ok" ELSE "err"
              /\ sim_request' = simulate_distribution_request(gas_limit, gas_price)
              /\ sim_result' = r
              /\ sim_error' = out.err
              /\ IF r.st = "Ok"
                 THEN /\ pc' = "estimate"
                      /\ logged' = logged
                      /\ UNCHANGED <<submit_result, run_result>>
                 ELSE /\ SubmissionFails(r)
                      /\ logged' = logged \cup {"simulation_failed", failure_line(caller)}
    /\ UNCHANGED <<caller, config, snapshot, sched, est_rpc, gas_estimate, gas_with_buffer, nonce, price_rpc,
                   tx_request, tx_hash, timing, receipt, lookup_rpc, wait_result>>

\* step 3: estimate_gas_safely, then the buffer
EstimateGas ==
    /\ pc = "estimate"
    /\ calls' = Append(calls, "eth_estimateGas")
    /\ \E out \in EstimateOutcomes :
          LET estimate == GasEstimate(out, gas_limit)
              buffered == GasWithBuffer(estimate, chain_id)
          IN  /\ est_rpc' = out
              /\ gas_estimate' = estimate
              /\ IF buffered.overflow
                 THEN /\ pc' = "panicked"
                      /\ submit_result' = Panic("GasBufferOverflow")
                      /\ run_result' = Panic("GasBufferOverflow")
                      /\ gas_with_buffer' = gas_with_buffer
                 ELSE /\ pc' = "nonce"
                      /\ gas_with_buffer' = buffered.val
                      /\ UNCHANGED <<submit_result, run_result>>
    /\ UNCHANGED <<caller, config, snapshot, sched, logged, sim_rpc, sim_request, sim_result, sim_error, nonce, price_rpc, tx_request, tx_hash, timing,
                   receipt, lookup_rpc, wait_result>>

\* step 4, build_legacy_transaction: get_transaction_count(address, None)
GetTransactionCount ==
    /\ pc = "nonce"
    /\ calls' = Append(calls, "eth_getTransactionCount")
    /\ \/ \E n \in 0..MaxNonce :
             /\ nonce' = n
             /\ pc' = "gas_price"
             /\ logged' = logged
             /\ UNCHANGED <<submit_result, run_result>>
       \/ /\ SubmissionFails(Err("TransactionCountFailed", "none", NoCause))
          /\ logged' = logged \cup {failure_line(caller)}
          /\ nonce' = nonce
    /\ UNCHANGED <<caller, config, snapshot, sched, sim_rpc, sim_request, sim_result, sim_error, est_rpc, gas_estimate, gas_with_buffer, price_rpc,
                   tx_request, tx_hash, timing, receipt, lookup_rpc, wait_result>>

\* step 4, build_legacy_transaction: get_safe_gas_price, then the request is built
BuildTransaction ==
    /\ pc = "gas_price"
    /\ \E live \in (IF gas_price.some THEN {NoQuery} ELSE GasPriceOutcomes) :
          LET price == get_safe_gas_price(gas_price, chain_id, live)
          IN  /\ price_rpc' = live
              /\ calls' = IF live = NoQuery THEN calls ELSE Append(calls, "eth_gasPrice")
              /\ IF price.st = "ok"
                 THEN /\ tx_request' =
                             build_legacy_transaction(gas_with_buffer, price.val, nonce, chain_id)
                      /\ pc' = "send"
                      /\ logged' = logged
                      /\ UNCHANGED <<submit_result, run_result>>
                 ELSE IF price.st = "panic"
                 THEN /\ pc' = "panicked"
                      /\ submit_result' = Panic("GasPriceOverflow")
                      /\ run_result' = Panic("GasPriceOverflow")
                      /\ UNCHANGED <<tx_request, logged>>
                 ELSE /\ SubmissionFails(Err("GasPriceFailed", "none", NoCause))
                      /\ logged' = logged \cup {failure_line(caller)}
                      /\ tx_request' = tx_request
    /\ UNCHANGED <<caller, config, snapshot, sched, sim_rpc, sim_request, sim_result, sim_error, est_rpc, gas_estimate, gas_with_buffer, nonce, tx_hash,
                   timing, receipt, lookup_rpc, wait_result>>

\* faulty variant: a failed send is tried again
SendTransactionRetried ==
    /\ pc = "send"
    /\ calls' = Append(calls, "eth_sendRawTransaction")
    /\ \/ /\ tx_hash' = "hash"
          /\ pc' = "sent"
       \/ /\ tx_hash' = tx_hash
          /\ pc' = "send"
    /\ UNCHANGED <<caller, config, snapshot, sched, logged, sim_rpc, sim_request, sim_result, sim_error, est_rpc, gas_estimate, gas_with_buffer, nonce,
                   price_rpc, tx_request, timing, results>>

\* step 4: client.send_transaction(tx_request, None) signs and submits the request
SendTransaction ==
    /\ pc = "send"
    /\ calls' = Append(calls, "eth_sendRawTransaction")
    /\ \/ /\ tx_hash' = "hash"
          /\ pc' = "sent"
          /\ logged' = logged
          /\ UNCHANGED <<submit_result, run_result>>
       \/ /\ SubmissionFails(Err("SendFailed", "none", NoCause))
          /\ logged' = logged \cup {failure_line(caller)}
          /\ tx_hash' = tx_hash
    /\ UNCHANGED <<caller, config, snapshot, sched, sim_rpc, sim_request, sim_result, sim_error, est_rpc, gas_estimate, gas_with_buffer, nonce,
                   price_rpc, tx_request, timing, receipt, lookup_rpc, wait_result>>

\* distribute_daily_rewards returns Ok(tx_hash); main.rs calls wait_for_confirmation(tx_hash)
WaitForConfirmation ==
    /\ pc = "sent"
    /\ submit_result' = Ok
    /\ logged' = logged \cup {"run_ok"}
    /\ est_rpc' = NoQuery
    /\ gas_estimate' = U256Zero
    /\ gas_with_buffer' = U256Zero
    /\ nonce' = 0
    /\ price_rpc' = NoQuery
    /\ tx_request' = NoTx
    /\ elapsed' = 0
    /\ rpc_delay' = 0
    /\ pc' = "loop"
    /\ UNCHANGED <<caller, config, snapshot, sched, calls, sim_rpc, sim_request, sim_result, sim_error, tx_hash, receipt, lookup_rpc, wait_result,
                   run_result>>

\* wait_for_confirmation has written the log lines in `lines` and returns r; its
\* start_time is dropped; the caller logs a confirmation for Ok(receipt) and returns
\* Ok(()) whatever r is
WaitReturns(r, lines) ==
    /\ wait_result' = r
    /\ logged' = logged \cup lines \cup run_lines(caller, r)
    /\ elapsed' = 0
    /\ rpc_delay' = 0
    /\ run_result' = run_result_after_wait(caller, r)
    /\ pc' = "done"

\* the loop's first statement finds the timeout exceeded
ConfirmationTimeout ==
    /\ pc = "loop"
    /\ TimedOut(elapsed, chain_id)
    /\ WaitReturns(Err("ConfirmationTimeout", "none", NoCause), {})
    /\ UNCHANGED <<caller, config, snapshot, sched, calls, locals, receipt, lookup_rpc, submit_result>>

\* one poll: get_transaction_receipt(tx_hash), and what the loop does with the answer
PollReceipt ==
    /\ pc = "loop"
    /\ ~TimedOut(elapsed, chain_id)
    /\ \/ /\ WaitReturns(Err("ReceiptQueryFailed", "none", NoCause), {})
          /\ calls' = Append(calls, "eth_getTransactionReceipt")
          /\ UNCHANGED <<receipt, lookup_rpc>>
       \/ /\ \E lat \in 0..MaxLatency :
                /\ elapsed' = elapsed + lat
                /\ rpc_delay' = rpc_delay + lat
          /\ pc' = "sleep"
          /\ calls' = Append(calls, "eth_getTransactionReceipt")
          /\ UNCHANGED <<logged, receipt, lookup_rpc, wait_result, run_result>>
       \/ \E status \in ReceiptStatuses :
             \E lookup \in (IF is_success(status) THEN {"none"} ELSE TransactionOutcomes) :
                /\ receipt' = [some |-> TRUE, status |-> status]
                /\ lookup_rpc' = lookup
                /\ calls' = calls \o (IF is_success(status)
                                      THEN <<"eth_getTransactionReceipt">>
                                      ELSE <<"eth_getTransactionReceipt",
                                             "eth_getTransactionByHash">>)
                /\ WaitReturns(receipt_result(status, lookup), receipt_lines(status, lookup))
    /\ UNCHANGED <<caller, config, snapshot, sched, locals, submit_result>>

\* faulty variant: the loop gives up after its third poll
SleepWithPollCap ==
    /\ pc = "sleep"
    /\ IF Cardinality({i \in DOMAIN calls : calls[i] = "eth_getTransactionReceipt"}) >= 3
       THEN /\ WaitReturns(Err("PollCapReached", "none", NoCause), {})
            /\ UNCHANGED <<caller, config, snapshot, sched, calls, locals, receipt, lookup_rpc,
                           submit_result>>
       ELSE /\ elapsed' = elapsed + CheckInterval(chain_id)
            /\ pc' = "loop"
            /\ UNCHANGED <<caller, config, snapshot, sched, calls, logged, locals, rpc_delay, results>>

\* tokio::time::sleep(check_interval)
Sleep ==
    /\ pc = "sleep"
    /\ elapsed' = elapsed + CheckInterval(chain_id)
    /\ pc' = "loop"
    /\ UNCHANGED <<caller, config, snapshot, sched, calls, logged, locals, rpc_delay, results>>

Next ==
    \/ StartRun
    \/ PreDistributionChecks
    \/ SimulateDistribution
    \/ EstimateGas
    \/ GetTransactionCount
    \/ BuildTransaction
    \/ SendTransaction
    \/ WaitForConfirmation
    \/ ConfirmationTimeout
    \/ PollReceipt
    \/ Sleep

Spec == Init /\ [][Next]_vars

\* wait_for_confirmation is entered: the run has passed pre-flight, simulation and
\* estimation, read the nonce, sent with the configured price and got the hash
InitWait ==
    /\ caller = "job"
    /\ SnapshotIdle
    /\ SchedIdle
    /\ chain_id \in ChainIds
    /\ gas_limit = U256From(500000)
    /\ gas_price = Some(ParseUnitsGwei(25).val)
    /\ pc = "loop"
    /\ calls = StatusCalls \o <<"eth_call:distributeDailyRewards", "eth_estimateGas",
                                "eth_getTransactionCount", "eth_sendRawTransaction">>
    /\ logged = {"run_ok"}
    /\ sim_rpc = "ok"
    /\ sim_request = simulate_distribution_request(gas_limit, gas_price)
    /\ sim_result = Ok
    /\ sim_error = NoCause
    /\ est_rpc = NoQuery
    /\ gas_estimate = U256Zero
    /\ gas_with_buffer = U256Zero
    /\ nonce = 0
    /\ price_rpc = NoQuery
    /\ tx_request = NoTx
    /\ tx_hash = "hash"
    /\ elapsed = 0
    /\ rpc_delay = 0
    /\ receipt = NoReceipt
    /\ lookup_rpc = "none"
    /\ submit_result = Ok
    /\ wait_result = NoResult
    /\ run_result = NoResult

\* the steps of wait_for_confirmation
NextWait ==
    \/ ConfirmationTimeout
    \/ PollReceipt
    \/ Sleep

\* the wait under its scheduling: the task is polled until it completes, every
\* request returns and every sleep ends, so a step of the loop that can be taken
\* is taken
WaitSpec ==
    /\ InitWait
    /\ [][NextWait]_vars
    /\ WF_vars(ConfirmationTimeout)
    /\ WF_vars(PollReceipt)
    /\ WF_vars(Sleep)

(***************************************************************************)
(* Properties                                                              *)
(***************************************************************************)
\* the local/dev chain ids
LocalDevChainIds == {1337, 31337, 1338, 5777}

\* the U256 whose three lowest 16-bit limbs are lo, mid and hi
Limbs(lo, mid, hi) ==
    [i \in 1..NumLimbs |-> IF i = 1 THEN lo ELSE IF i = 2 THEN mid ELSE IF i = 3 THEN hi ELSE 0]

\* 20 000 000 000 wei = 4 * 2^32 + 43031 * 2^16 + 51200
Gwei20 == Limbs(51200, 43031, 4)
\* 25 000 000 000 wei
Gwei25 == Limbs(47616, 53789, 5)
\* 30 000 000 000 wei
Gwei30 == Limbs(44032, 64547, 6)
\* 100 000 000 000 wei
Gwei100 == Limbs(59392, 18550, 23)
\* 110 000 000 000 wei
Gwei110 == Limbs(52224, 40066, 25)

\* how many times the run has issued the request
CountCalls(request) == Cardinality({i \in DOMAIN calls : calls[i] = request})
SendCount == CountCalls("eth_sendRawTransaction")
PollCount == CountCalls("eth_getTransactionReceipt")

\* C1: when the read-only simulated call fails, the run returns an error and
\* send_transaction is not invoked in it; every send follows, in the same run, a
\* simulation that succeeded.
C1_SimulationGatesSend ==
    /\ sim_rpc = "err" =>
          /\ pc = "done"
          /\ submit_result.st = "Err"
          /\ submit_result.kind \in {"SimulationRejected", "SimulationFailed"}
          /\ run_result.st = "Err"
          /\ SendCount = 0
          /\ tx_hash = "none"
    /\ \A j \in DOMAIN calls :
          calls[j] = "eth_sendRawTransaction" =>
             /\ sim_rpc = "ok"
             /\ \E i \in 1..(j - 1) : calls[i] = "eth_call:distributeDailyRewards"

\* C1 witness: a run whose simulation was rejected has ended without a send
C1_Witness ==
    /\ sim_rpc = "err"
    /\ pc = "done"
    /\ submit_result.kind = "SimulationRejected"
    /\ SendCount = 0

\* C2: within one run send_transaction is invoked at most once: a failed send ends
\* the run, and after a send the run only polls for the receipt (and looks the
\* transaction up), also when the wait times out.
C2_AtMostOneSend ==
    /\ SendCount <= 1
    /\ submit_result.kind = "SendFailed" => pc = "done" /\ SendCount = 1 /\ run_result.st = "Err"
    /\ wait_result.kind = "ConfirmationTimeout" => pc = "done" /\ SendCount = 1
    /\ \A j \in DOMAIN calls :
          (j > 1 /\ calls[j - 1] \in {"eth_sendRawTransaction", "eth_getTransactionReceipt",
                                      "eth_getTransactionByHash"}) =>
             calls[j] \in {"eth_getTransactionReceipt", "eth_getTransactionByHash"}

\* C2 witness: the wait timed out after the one send of the run
C2_Witness ==
    /\ wait_result.kind = "ConfirmationTimeout"
    /\ SendCount = 1
    /\ PollCount > 1

\* the buffered gas limit for an estimate on a chain id: * 150 / 100 on the local/dev
\* ids, * 120 / 100 on the others
Buffered(estimate, cid) ==
    U256Div(U256Mul(estimate, IF cid \in LocalDevChainIds THEN 150 ELSE 120).val, 100)

C4_GasLimitBuffered ==
    tx_request.some =>
       LET estimate == IF est_rpc.st = "ok" THEN est_rpc.val ELSE gas_limit
       IN  /\ tx_request.gas = Buffered(estimate, chain_id)
           /\ estimate = U256From(200000) =>
                 tx_request.gas =
                    U256From(IF chain_id \in LocalDevChainIds THEN 300000 ELSE 240000)
           /\ estimate = U256From(333333) =>
                 tx_request.gas =
                    U256From(IF chain_id \in LocalDevChainIds THEN 499999 ELSE 399999)

\* C4 witness: chain id 31337, estimate 200000, sent with gas limit 300000
C4_Witness ==
    /\ pc = "sent"
    /\ chain_id = 31337
    /\ est_rpc = [st |-> "ok", val |-> U256From(200000)]
    /\ tx_request.gas = U256From(300000)

RECURSIVE AddCarry(_, _, _, _)
\* limbs i..NumLimbs of a + b plus the carry into limb i, then the carry out
AddCarry(a, b, i, carry) ==
    IF i > NumLimbs THEN <<carry>>
    ELSE LET t == a[i] + b[i] + carry
         IN  <<t % LimbBase>> \o AddCarry(a, b, i + 1, t \div LimbBase)

\* whether P * 110 / 100, which is P + P / 10, fits in 256 bits
PremiumFits(P) == AddCarry(P, U256Div(P, 10), 1, 0)[NumLimbs + 1] = 0

\* P * 110 / 100 as the integer P + P / 10, for a P whose premium fits
WithPremium(P) == [i \in 1..NumLimbs |-> AddCarry(P, U256Div(P, 10), 1, 0)[i]]

\* C5: with no price configured and a live price P, the price resolved is
\* min(P, 20 gwei) on the local/dev chain ids and P * 110 / 100 on every other
\* one (for every P whose result is a U256); 31337 with 100 gwei gives 20 gwei.
C5_LivePriceResolved ==
    (~gas_price.some /\ price_rpc.st = "ok"
        /\ (chain_id \in LocalDevChainIds \/ PremiumFits(price_rpc.val))) =>
       /\ tx_request.some
       /\ tx_request.gas_price =
             IF chain_id \in LocalDevChainIds
             THEN (IF U256Less(Gwei20, price_rpc.val) THEN Gwei20 ELSE price_rpc.val)
             ELSE WithPremium(price_rpc.val)
       /\ (chain_id = 31337 /\ price_rpc.val = Gwei100) => tx_request.gas_price = Gwei20

\* C6: with a fixed gas price configured the request carries that price on every
\* chain id, and the run never asks the network for its gas price.
C6_FixedPriceUsed ==
    gas_price.some =>
       /\ CountCalls("eth_gasPrice") = 0
       /\ price_rpc.st = "none"
       /\ tx_request.some => tx_request.gas_price = gas_price.val
       /\ pc \notin {"done", "panicked"} \/ submit_result.kind # "GasPriceOverflow"

\* C6 witness: 25 gwei configured on a local/dev chain id, sent at 25 gwei
C6_Witness ==
    /\ pc = "sent"
    /\ chain_id \in LocalDevChainIds
    /\ gas_price = Some(Gwei25)
    /\ tx_request.gas_price = Gwei25

\* C7: with no price configured, a failed live query does not fail the price
\* resolution: the request is built with 20 gwei on a local/dev chain id and with
\* 30 gwei on any other, and the run goes on to send it.
C7_DefaultPriceOnQueryFailure ==
    (~gas_price.some /\ price_rpc.st = "err") =>
       /\ tx_request.some
       /\ tx_request.gas_price = (IF chain_id \in LocalDevChainIds THEN Gwei20 ELSE Gwei30)
       /\ pc \in {"send", "sent", "done"}
       /\ pc = "done" => submit_result.kind = "SendFailed"

\* C7 witness: chain id 1, the live query failed, sent at 30 gwei
C7_Witness ==
    /\ pc = "sent"
    /\ chain_id = 1
    /\ ~gas_price.some
    /\ price_rpc.st = "err"
    /\ tx_request.gas_price = Gwei30

\* C8: every request built and sent carries a gas price greater than zero.
C8_GasPricePositive ==
    (pc = "sent" /\ tx_request.some) => tx_request.gas_price # U256Zero

\* the claim's timeout and poll interval, in seconds, for a chain id
ClaimedTimeout(cid) == IF cid \in LocalDevChainIds THEN 60 ELSE 300
ClaimedInterval(cid) == IF cid \in LocalDevChainIds THEN 1 ELSE 5

\* C9 as stated: on a clock that only the sleeps advance, with no receipt ever
\* available, the polls are one interval apart (1 s local/dev, 5 s otherwise), the
\* timeout error comes at 60 s (local/dev) or 300 s after the start, and no poll
\* is made after the timeout has elapsed.
C9_Original ==
    [][(pc = "loop" /\ rpc_delay = 0) =>
          /\ elapsed = PollCount * ClaimedInterval(chain_id)
          /\ PollCount' = PollCount + 1 => elapsed <= ClaimedTimeout(chain_id)
          /\ wait_result'.kind = "ConfirmationTimeout" => elapsed = ClaimedTimeout(chain_id)
      ]_vars

\* C9 as amended: on a clock that only the sleeps advance, with no receipt ever
\* available, the polls are one interval apart (1 s local/dev, 5 s otherwise), the
\* last one at 60 s (300 s), and the timeout error comes at the first check after
\* that, 61 s (local/dev) or 305 s after the start; on any clock a poll is made only
\* while the elapsed time is at most the timeout, and the timeout error comes only
\* once the elapsed time exceeds it.
C9_TimeoutAfterLastPoll ==
    [][pc = "loop" =>
          /\ PollCount' = PollCount + 1 => elapsed <= ClaimedTimeout(chain_id)
          /\ wait_result'.kind = "ConfirmationTimeout" => elapsed > ClaimedTimeout(chain_id)
          /\ rpc_delay = 0 =>
                /\ elapsed = PollCount * ClaimedInterval(chain_id)
                /\ wait_result'.kind = "ConfirmationTimeout" =>
                      /\ elapsed = ClaimedTimeout(chain_id) + ClaimedInterval(chain_id)
                      /\ elapsed = IF chain_id \in LocalDevChainIds THEN 61 ELSE 305
                      /\ PollCount = 61
      ]_vars

\* C9 witness: on a local/dev chain id the wait timed out after 61 polls
C9_Witness ==
    /\ pc = "done"
    /\ chain_id = 31337
    /\ wait_result.kind = "ConfirmationTimeout"
    /\ PollCount = 61

\* C10: a poll that finds a receipt makes wait_for_confirmation return Ok with it
\* whatever its status: status 1 is logged as success, any other or no status as a
\* failure, and neither that nor a failed get_transaction makes the wait fail.
C10_ReceiptAlwaysReturned ==
    receipt.some =>
       /\ pc = "done"
       /\ wait_result.st = "Ok"
       /\ run_result.st = "Ok"
       /\ IF receipt.status = [some |-> TRUE, val |-> 1]
          THEN /\ "tx_success" \in logged
               /\ "tx_failed" \notin logged
               /\ lookup_rpc = "none"
          ELSE /\ "tx_failed" \in logged
               /\ "tx_success" \notin logged
               /\ lookup_rpc \in {"err", "absent", "some"}

\* C10 witness: a receipt with status 0 was returned although get_transaction failed
C10_Witness ==
    /\ receipt.some
    /\ receipt.status = [some |-> TRUE, val |-> 0]
    /\ lookup_rpc = "err"
    /\ wait_result.st = "Ok"

\* the substrings of the claim: the two it classifies, and the known ones
OwnableText == "Ownable: caller is not the owner"
PausableText == "Pausable: paused"
ReasonTexts ==
    {OwnableText, PausableText, "Too early", "time", "Insufficient", "balance", "Not active"}

ReadOutcomes(i) ==
    IF i \in {1, 4, 5} THEN BoolReads
    ELSE IF i = 2 THEN AddressReads
    ELSE U256Reads

\* faulty variant: the read is made with `?`, so a failed read ends the snapshot
read_status_field_or_fail(st, i, out) ==
    [ok |-> out.ok,
     status |->
        IF ~out.ok THEN st
        ELSE IF i = 1 THEN [st EXCEPT !.is_active = out.val]
        ELSE IF i = 2 THEN [st EXCEPT !.owner = out.val]
        ELSE IF i = 3 THEN [st EXCEPT !.last_distribution_time = Some(out.val)]
        ELSE IF i = 4 THEN [st EXCEPT !.is_paused = out.val]
        ELSE IF i = 5 THEN [st EXCEPT !.can_distribute = out.val]
        ELSE IF i = 6 THEN [st EXCEPT !.rewards_pool = out.val]
        ELSE IF i = 7 THEN [st EXCEPT !.total_rewards = Some(out.val)]
        ELSE [st EXCEPT !.rewards_per_day = Some(out.val)]]

\* get_contract_status: the i-th `if let Ok(v) = ...call().await { status.field = v }`;
\* ok says whether get_contract_status goes on to the next statement
read_status_field(st, i, out) ==
    [ok |-> TRUE,
     status |->
        IF ~out.ok THEN st
        ELSE IF i = 1 THEN [st EXCEPT !.is_active = out.val]
        ELSE IF i = 2 THEN [st EXCEPT !.owner = out.val]
        ELSE IF i = 3 THEN [st EXCEPT !.last_distribution_time = Some(out.val)]
        ELSE IF i = 4 THEN [st EXCEPT !.is_paused = out.val]
        ELSE IF i = 5 THEN [st EXCEPT !.can_distribute = out.val]
        ELSE IF i = 6 THEN [st EXCEPT !.rewards_pool = out.val]
        ELSE IF i = 7 THEN [st EXCEPT !.total_rewards = Some(out.val)]
        ELSE [st EXCEPT !.rewards_per_day = Some(out.val)]]

\* the configurations the status reads are followed under
ReadsChainIds == {1, 31337}

InitReads ==
    /\ caller = "job"
    /\ SchedIdle
    /\ SnapshotIdle
    /\ chain_id \in ReadsChainIds
    /\ gas_limit = U256From(500000)
    /\ gas_price \in {None, Some(ParseUnitsGwei(25).val)}
    /\ pc \in {"pre_checks", "diag_connection"}
    /\ calls = << >>
    /\ logged = {}
    /\ sim_rpc = "none"
    /\ sim_request = NoRequest
    /\ sim_result = NoResult
    /\ sim_error = NoCause
    /\ est_rpc = NoQuery
    /\ gas_estimate = U256Zero
    /\ gas_with_buffer = U256Zero
    /\ nonce = 0
    /\ price_rpc = NoQuery
    /\ tx_request = NoTx
    /\ tx_hash = "none"
    /\ elapsed = 0
    /\ rpc_delay = 0
    /\ receipt = NoReceipt
    /\ lookup_rpc = "none"
    /\ submit_result = NoResult
    /\ wait_result = NoResult
    /\ run_result = NoResult

\* get_contract_status makes its next read; should the read end the snapshot with
\* an error, pre_distribution_checks and diagnose return it (`?`) and
\* test_connection ignores it (`if let Ok(status)`)
ReadStatus ==
    /\ pc \in {"pre_checks", "diag_connection_status", "diag_status"}
    /\ Len(status_reads) < Len(StatusCalls)
    /\ LET i == Len(status_reads) + 1
       IN  \E out \in ReadOutcomes(i) :
              LET r == read_status_field(contract_status, i, out)
              IN  /\ calls' = Append(calls, StatusCalls[i])
                  /\ status_reads' = Append(status_reads, out)
                  /\ contract_status' = r.status
                  /\ IF r.ok
                     THEN UNCHANGED <<pc, logged, submit_result, run_result>>
                     ELSE IF pc = "pre_checks"
                     THEN /\ SubmissionFails(Err("StatusFailed", "none", NoCause))
                          /\ logged' = logged \cup {failure_line(caller)}
                     ELSE IF pc = "diag_status"
                     THEN /\ run_result' = Err("StatusFailed", "none", NoCause)
                          /\ pc' = "done"
                          /\ UNCHANGED <<logged, submit_result>>
                     ELSE /\ pc' = "diag_network"
                          /\ UNCHANGED <<logged, submit_result, run_result>>
    /\ UNCHANGED <<caller, config, sched, locals, timing, receipt, lookup_rpc, wait_result>>

\* pre_distribution_checks has the snapshot, logs it (it stays as logged) and returns
PreflightReturns ==
    /\ pc = "pre_checks"
    /\ Len(status_reads) = Len(StatusCalls)
    /\ LET r == pre_distribution_checks(contract_status)
       IN  IF r.st = "Ok"
           THEN /\ pc' = "simulate"
                /\ logged' = logged \cup {"status_logged", "preflight_passed"}
                /\ UNCHANGED <<submit_result, run_result>>
           ELSE /\ SubmissionFails(r)
                /\ logged' = logged \cup {"status_logged", failure_line(caller)}
    /\ UNCHANGED <<caller, config, snapshot, sched, calls, locals, timing, receipt, lookup_rpc, wait_result>>

\* ContractDebugger::diagnose returns Err(e) from a step made with `?`
DiagnoseFails(kind) ==
    /\ run_result' = Err(kind, "none", NoCause)
    /\ pc' = "done"

\* what client.get_code answers: an error, no bytecode, or bytecode
CodeOutcomes == {"err", "empty", "code"}

\* diagnose step 1, test_connection: get_code, then the status snapshot
DiagnoseTestConnection ==
    /\ pc = "diag_connection"
    /\ calls' = Append(calls, "eth_getCode")
    /\ \E code \in CodeOutcomes :
          IF code = "err" THEN DiagnoseFails("GetCodeFailed") /\ logged' = logged
          ELSE IF code = "empty" THEN DiagnoseFails("NoContractCode") /\ logged' = logged
          ELSE /\ pc' = "diag_connection_status"
               /\ logged' = logged \cup {"code_length"}
               /\ run_result' = run_result
    /\ UNCHANGED <<caller, config, snapshot, sched, locals, timing, receipt, lookup_rpc,
                   submit_result, wait_result>>

\* test_connection has its snapshot, logs it and returns Ok(())
TestConnectionReturns ==
    /\ pc = "diag_connection_status"
    /\ Len(status_reads) = Len(StatusCalls)
    /\ pc' = "diag_network"
    /\ logged' = logged \cup {"connection_status_logged"}
    /\ contract_status' = ContractStatusDefault
    /\ status_reads' = << >>
    /\ UNCHANGED <<caller, config, sched, calls, locals, timing, results>>

\* diagnose step 2, get_network_info: get_chainid()?, get_block_number()?,
\* get_safe_gas_price().unwrap_or_default(); the NetworkInfo is logged and dropped
DiagnoseNetworkInfo ==
    /\ pc = "diag_network"
    /\ \/ /\ calls' = Append(calls, "eth_chainId")
          /\ DiagnoseFails("ChainIdFailed")
          /\ logged' = logged
       \/ /\ calls' = calls \o <<"eth_chainId", "eth_blockNumber">>
          /\ DiagnoseFails("BlockNumberFailed")
          /\ logged' = logged
       \/ \E live \in (IF gas_price.some THEN {NoQuery} ELSE GasPriceOutcomes) :
             /\ calls' = calls \o <<"eth_chainId", "eth_blockNumber">>
                               \o (IF live = NoQuery THEN << >> ELSE <<"eth_gasPrice">>)
             /\ IF get_safe_gas_price(gas_price, chain_id, live).st = "panic"
                THEN /\ pc' = "panicked"
                     /\ run_result' = Panic("GasPriceOverflow")
                     /\ logged' = logged
                ELSE /\ pc' = "diag_balance"
                     /\ run_result' = run_result
                     /\ logged' = logged \cup {"network_info"}
    /\ UNCHANGED <<caller, config, snapshot, sched, locals, timing, receipt, lookup_rpc,
                   submit_result, wait_result>>

\* diagnose step 3: get_balance()?
DiagnoseBalance ==
    /\ pc = "diag_balance"
    /\ calls' = Append(calls, "eth_getBalance")
    /\ \/ /\ DiagnoseFails("BalanceFailed")
          /\ logged' = logged
       \/ /\ pc' = "diag_status"
          /\ logged' = logged \cup {"balance"}
          /\ run_result' = run_result
    /\ UNCHANGED <<caller, config, snapshot, sched, locals, timing, receipt, lookup_rpc,
                   submit_result, wait_result>>

\* seconds since the epoch at which check_timing can run
Nows == {500, 50000, 100000}

\* U256::as_u64 of a value below 2^32
U256AsU64(x) == x[1] + x[2] * LimbBase

\* check_permissions: the line it logs
check_permissions(st) ==
    IF st.owner = "signer" THEN "permission_ok" ELSE "permission_failed"

\* check_timing: the line it logs, or "panic"; current_time - last_time underflows
\* when the last distribution is in the future, which panics when overflow checks
\* are compiled in and wraps otherwise
check_timing(st, now, overflow_checks) ==
    IF ~st.last_distribution_time.some THEN "timing_unknown"
    ELSE LET last == U256AsU64(st.last_distribution_time.val)
         IN  IF now < last
             THEN (IF overflow_checks THEN "panic" ELSE "timing_ok")
             ELSE IF now - last >= 23 * 3600 THEN "timing_ok"
             ELSE "timing_failed"

\* check_rewards_pool: the lines it logs
check_rewards_pool(st) ==
    IF U256Less(U256Zero, st.rewards_pool)
    THEN {"pool_ok"} \cup
         (IF st.rewards_per_day.some
          THEN (IF U256Leq(st.rewards_per_day.val, st.rewards_pool)
                THEN {"pool_sufficient"} ELSE {"pool_insufficient"})
          ELSE {})
    ELSE {"pool_zero"}

\* diagnose step 4: get_contract_status()? has returned the snapshot and logs it
DiagnoseGotStatus ==
    /\ pc = "diag_status"
    /\ Len(status_reads) = Len(StatusCalls)
    /\ pc' = "diag_checks"
    /\ logged' = logged \cup {"status_logged"}
    /\ UNCHANGED <<caller, config, snapshot, sched, calls, locals, timing, results>>

\* diagnose steps 5 to 7: check_permissions, check_timing, check_rewards_pool
DiagnoseChecks ==
    /\ pc = "diag_checks"
    /\ \E now \in Nows, overflow_checks \in BOOLEAN :
          LET timing_line == check_timing(contract_status, now, overflow_checks)
          IN  IF timing_line = "panic"
              THEN /\ pc' = "panicked"
                   /\ run_result' = Panic("TimeUnderflow")
                   /\ logged' = logged \cup {check_permissions(contract_status)}
              ELSE /\ pc' = "diag_simulate"
                   /\ run_result' = run_result
                   /\ logged' = logged \cup {check_permissions(contract_status), timing_line}
                                       \cup check_rewards_pool(contract_status)
    /\ contract_status' = ContractStatusDefault
    /\ status_reads' = << >>
    /\ UNCHANGED <<caller, config, sched, calls, locals, timing, receipt, lookup_rpc, submit_result,
                   wait_result>>

\* diagnose step 8: simulate_transaction, whose error is only logged; diagnose
\* returns Ok(())
DiagnoseSimulate ==
    /\ pc = "diag_simulate"
    /\ calls' = Append(calls, "eth_call:distributeDailyRewards")
    /\ \E out \in {o \in CallOutcomes : o.err = NoCause \/ ~o.ok} :
          LET r == simulate_transaction(out)
          IN  /\ sim_rpc' = IF out.ok THEN "ok" ELSE "err"
              /\ sim_request' = simulate_transaction_request(gas_limit)
              /\ sim_result' = r
              /\ sim_error' = out.err
              /\ logged' = logged \cup {IF r.st = "Ok" THEN "dry_run_ok" ELSE "dry_run_failed"}
    /\ run_result' = Ok
    /\ pc' = "done"
    /\ UNCHANGED <<caller, config, snapshot, sched, est_rpc, gas_estimate, gas_with_buffer, nonce,
                   price_rpc, tx_request, tx_hash, timing, receipt, lookup_rpc,
                   submit_result, wait_result>>

NextReads ==
    \/ ReadStatus
    \/ PreflightReturns
    \/ DiagnoseTestConnection
    \/ TestConnectionReturns
    \/ DiagnoseNetworkInfo
    \/ DiagnoseBalance
    \/ DiagnoseGotStatus
    \/ DiagnoseChecks
    \/ DiagnoseSimulate

ReadsSpec == InitReads /\ [][NextReads]_vars

(***************************************************************************)
(* Properties of the status reads                                          *)
(***************************************************************************)
\* the i-th status read has been made and succeeded
ReadOk(i) == i <= Len(status_reads) /\ status_reads[i].ok

\* the value a U256 read filled an Option field with
ReadOption(i) ==
    IF ReadOk(i) THEN [some |-> TRUE, val |-> status_reads[i].val]
    ELSE [some |-> FALSE, val |-> U256Zero]

\* C12: whatever the snapshot says (not active, paused, canDistribute false, pool
\* zero, any last distribution time, every read failed), pre_distribution_checks
\* returns success and distribute_daily_rewards stands at the simulation step, the
\* read-only call being its next request; pre-flight never ends the submission.
C12_PreflightAdvisory ==
    /\ submit_result.st # "Err"
    /\ pc \in {"pre_checks", "simulate"} => (submit_result = NoResult /\ run_result = NoResult)
    /\ (pc = "pre_checks" /\ Len(status_reads) = Len(StatusCalls)) => ENABLED PreflightReturns
    /\ pc = "simulate" =>
          /\ Len(status_reads) = Len(StatusCalls)
          /\ "preflight_passed" \in logged
          /\ calls = StatusCalls
          /\ ENABLED SimulateDistribution

\* C12 witness: the snapshot says not active, paused, not allowed and an empty pool,
\* and the run stands at the simulation step
C12_Witness ==
    /\ pc = "simulate"
    /\ status_reads[1] = [ok |-> TRUE, val |-> FALSE]
    /\ contract_status.is_paused
    /\ status_reads[5] = [ok |-> TRUE, val |-> FALSE]
    /\ status_reads[6] = [ok |-> TRUE, val |-> U256Zero]
    /\ submit_result = NoResult

\* C17: get_contract_status never returns an error; at every point of the snapshot
\* each field whose read succeeded holds the value read, each field whose read
\* failed (or is still to come) holds its default, the reads are issued in order,
\* and after a failed read the next read is still made.
C17_StatusBestEffort ==
    /\ submit_result.kind # "StatusFailed"
    /\ run_result.kind # "StatusFailed"
    /\ contract_status.is_active = (IF ReadOk(1) THEN status_reads[1].val ELSE FALSE)
    /\ contract_status.owner = (IF ReadOk(2) THEN status_reads[2].val ELSE "0x0")
    /\ contract_status.last_distribution_time = ReadOption(3)
    /\ contract_status.is_paused = (IF ReadOk(4) THEN status_reads[4].val ELSE FALSE)
    /\ contract_status.can_distribute = (IF ReadOk(5) THEN status_reads[5].val ELSE FALSE)
    /\ contract_status.rewards_pool = (IF ReadOk(6) THEN status_reads[6].val ELSE U256Zero)
    /\ contract_status.total_rewards = ReadOption(7)
    /\ contract_status.rewards_per_day = ReadOption(8)
    /\ (pc \in {"pre_checks", "diag_connection_status", "diag_status"}) =>
          /\ Len(calls) >= Len(status_reads)
          /\ \A i \in 1..Len(status_reads) :
                calls[Len(calls) - Len(status_reads) + i] = StatusCalls[i]
          /\ Len(status_reads) < Len(StatusCalls) => ENABLED ReadStatus

\* C17 witness: the first read failed, the last succeeded, and the snapshot was
\* returned to diagnose with both fields as the claim says
C17_Witness ==
    /\ pc = "diag_checks"
    /\ ~status_reads[1].ok
    /\ ~status_reads[6].ok
    /\ status_reads[8] = [ok |-> TRUE, val |-> U256From(1000)]
    /\ contract_status.rewards_per_day = Some(U256From(1000))
    /\ contract_status.rewards_pool = U256Zero

\* C18: diagnose never returns an error because a step failed: when it has
\* returned, it returned Ok(()) and its later steps (the balance read, the status
\* snapshot, the dry run) were made.
C18_DiagnoseAdvisory ==
    (pc = "done" /\ run_result # NoResult) =>
       /\ run_result.st = "Ok"
       /\ \E i \in DOMAIN calls : calls[i] = "eth_getBalance"
       /\ \E i \in DOMAIN calls : calls[i] = "eth_call:distributeDailyRewards"

\* C21: the dry run of the diagnostics is identical to the simulation step of the
\* gateway: for the same configuration it hands eth_call the same request (from, to,
\* calldata, gas, gas price) and, for the same answer of the chain, yields the same
\* success or failure and the same classified reason.
C21_DryRunIdentical ==
    (pc = "done" /\ sim_rpc # "none" /\ run_result.st = "Ok") =>
       LET out == [ok |-> sim_rpc = "ok", err |-> sim_error]
       IN  /\ sim_request = simulate_distribution_request(gas_limit, gas_price)
           /\ sim_result.st = simulate_distribution(out).st
           /\ sim_result.reason = simulate_distribution(out).reason

(***************************************************************************)
(* Properties of the run, continued                                        *)
(***************************************************************************)
\* C13: the nonce of the request sent is the transaction count read in this run,
\* after the pre-flight reads, the simulation and the gas estimate, and the read is
\* the last chain query before the send: nothing is asked between the two.
C13_NonceReadJustBeforeSend ==
    /\ tx_request.some => tx_request.nonce = nonce
    /\ \A j \in DOMAIN calls :
          calls[j] = "eth_getTransactionCount" =>
             /\ \E i \in 1..(j - 1) : calls[i] = "eth_estimateGas"
             /\ \E i \in 1..(j - 1) : calls[i] = "eth_call:distributeDailyRewards"
             /\ \A i \in 1..Len(StatusCalls) : calls[i] = StatusCalls[i]
    /\ \A j \in DOMAIN calls :
          calls[j] = "eth_sendRawTransaction" =>
             j > 1 /\ calls[j - 1] = "eth_getTransactionCount"

\* the lines and results by which a run reports a failure
FailureLines == {"run_failed", "simulation_failed", "wait_failed", "confirmation_timeout"}

\* C16: when the transaction was sent and the wait ended in ConfirmationTimeout, the
\* run reports it, in its log or in its result, and sends nothing more.
C16_TimeoutReported ==
    wait_result.kind = "ConfirmationTimeout" =>
       /\ SendCount = 1
       /\ run_result.st = "Err" \/ logged \cap FailureLines # {}

\* C19 as stated: the polling loop ends only with a receipt (returned) or with the
\* timeout error; a poll without a receipt is followed by a sleep of one interval
\* and the loop again.
C19_Original ==
    [][(pc \in {"loop", "sleep"}) =>
          /\ pc' \in {"loop", "sleep", "done"}
          /\ pc' = "done" =>
                \/ receipt'.some /\ wait_result'.st = "Ok"
                \/ wait_result'.kind = "ConfirmationTimeout"
          /\ pc = "sleep" =>
                pc' = "loop" /\ elapsed' = elapsed + ClaimedInterval(chain_id)
          /\ (pc = "loop" /\ pc' # "done") => pc' = "sleep"
      ]_vars

\* C19 as amended: the polling loop ends only with a receipt (returned), with the
\* timeout error, or with the error of a receipt query that itself failed, which
\* is returned at once; a poll that answers "no receipt yet" is followed by a sleep
\* of one interval and the loop again.
C19_LoopEndings ==
    [][(pc \in {"loop", "sleep"}) =>
          /\ pc' \in {"loop", "sleep", "done"}
          /\ pc' = "done" =>
                \/ receipt'.some /\ wait_result'.st = "Ok"
                \/ wait_result'.kind = "ConfirmationTimeout" /\ PollCount' = PollCount
                \/ wait_result'.kind = "ReceiptQueryFailed" /\ PollCount' = PollCount + 1
          /\ pc = "sleep" =>
                pc' = "loop" /\ elapsed' = elapsed + ClaimedInterval(chain_id)
          /\ (pc = "loop" /\ pc' # "done") => (pc' = "sleep" /\ PollCount' = PollCount + 1)
      ]_vars

\* C19 witness: after polls and sleeps, a failed receipt query ended the wait
C19_Witness ==
    /\ pc = "done"
    /\ wait_result.kind = "ReceiptQueryFailed"
    /\ PollCount > 2
    /\ ~receipt.some

(***************************************************************************)
(* The scheduler: main registers the jobs and starts the JobScheduler, which *)
(* spawns one run of the job's closure for every trigger of its cron         *)
(* expression.  A run is followed here through the steps at which it meets   *)
(* the chain or the other runs: it submits (pre-flight, simulation,          *)
(* estimation), reads the nonce, sends, polls for the receipt and returns    *)
(* to the job's closure.  The chain keeps the transaction count of the       *)
(* signing address and the transactions of the address waiting to be mined.  *)
(***************************************************************************)
\* a run is between its trigger and the return of the job's closure
InProgress(task) == task.phase \in {"submitting", "nonce_read", "polling"}

\* the slots in which no run has been spawned yet
FreeSlots == {t \in 1..MaxTasks : tasks[t].phase = "idle"}

\* the transactions of the address the node holds unmined, by the run that sent them
Pending == {t \in 1..MaxTasks : tasks[t].tx = "pending"}

\* what the closure registered for the job hands back to the job: the daily
\* closure returns the run's result, the test closure drops it and returns Ok(())
job_task(job, result) == IF job = "test" THEN "Ok" ELSE result

\* mutant of job_wrapper: the error of the task leaves the job and ends the process
job_wrapper_propagates(job, result) ==
    [log |-> IF result = "Ok" THEN "info" ELSE "warn", alive |-> result = "Ok", keep |-> TRUE]

\* the match on (task)().await in the job: Ok is logged with info!, Err with warn!,
\* and the job's future completes either way
job_wrapper(job, result) ==
    [log |-> IF result = "Ok" THEN "info" ELSE "warn", alive |-> TRUE, keep |-> TRUE]

\* the service after scheduler.start(): a release build has the daily job, a debug
\* build the daily job and the test job; no run has been spawned
InitSched ==
    /\ caller = "job"
    /\ SnapshotIdle
    /\ registered \in {{"daily"}, Jobs}
    /\ process_up = TRUE
    /\ tasks = [t \in 1..MaxTasks |-> NoTask]
    /\ chain_count = 0
    /\ sent = << >>
    /\ overlapped = FALSE
    /\ chain_id \in ReadsChainIds
    /\ gas_limit = U256From(500000)
    /\ gas_price \in GasPrices
    /\ pc = "idle"
    /\ calls = << >>
    /\ logged = {}
    /\ sim_rpc = "none"
    /\ sim_request = NoRequest
    /\ sim_result = NoResult
    /\ sim_error = NoCause
    /\ est_rpc = NoQuery
    /\ gas_estimate = U256Zero
    /\ gas_with_buffer = U256Zero
    /\ nonce = 0
    /\ price_rpc = NoQuery
    /\ tx_request = NoTx
    /\ tx_hash = "none"
    /\ elapsed = 0
    /\ rpc_delay = 0
    /\ receipt = NoReceipt
    /\ lookup_rpc = "none"
    /\ submit_result = NoResult
    /\ wait_result = NoResult
    /\ run_result = NoResult

\* the one-run state of the detailed specifications is not used by the scheduler
RunIdle == UNCHANGED <<caller, config, pc, calls, logged, locals, timing, results, snapshot>>

\* a cron trigger of a registered job: the scheduler spawns the job's closure, which
\* clones the contract and calls distribute_daily_rewards.  Nothing looks at the runs
\* already spawned.  The test job fires every minute and a run polls for more than a
\* minute before it times out, so a trigger of either job can meet a run of the test
\* job, and a trigger of the test job a run of the daily job; two runs of the
\* daily job are a day apart and do not meet.
Trigger(job) ==
    /\ process_up
    /\ job \in registered
    /\ FreeSlots # {}
    /\ \A t \in 1..MaxTasks : InProgress(tasks[t]) => "test" \in {job, tasks[t].job}
    /\ LET s == CHOOSE t \in FreeSlots : \A u \in FreeSlots : t <= u
       IN  /\ tasks' = [tasks EXCEPT ![s] = [NoTask EXCEPT !.job = job, !.phase = "submitting"]]
           /\ overlapped' = (overlapped \/ \E t \in 1..MaxTasks : InProgress(tasks[t]))
    /\ UNCHANGED <<registered, process_up, chain_count, sent>>
    /\ RunIdle

\* the run returns to the job's closure, and the closure to the job
Finish(t, result, wait, tx) ==
    LET w == job_wrapper(tasks[t].job, job_task(tasks[t].job, result))
    IN  /\ tasks' = [tasks EXCEPT ![t] = [@ EXCEPT !.phase = "finished", !.result = result,
                                                   !.wait = wait, !.tx = tx, !.log = w.log]]
        /\ process_up' = (process_up /\ w.alive)
        /\ registered' = IF w.keep THEN registered ELSE registered \ {tasks[t].job}

\* RewardsContract::distribute_daily_rewards fails before the nonce is read: the
\* simulation is rejected or a request of the estimation fails
TaskFails(t) ==
    /\ process_up
    /\ tasks[t].phase = "submitting"
    /\ Finish(t, "Err", "none", "none")
    /\ UNCHANGED <<chain_count, sent, overlapped>>
    /\ RunIdle

\* build_legacy_transaction reads the transaction count of the address at the
\* latest block, which does not count the transactions still waiting
TaskReadsNonce(t) ==
    /\ process_up
    /\ tasks[t].phase = "submitting"
    /\ tasks' = [tasks EXCEPT ![t] = [@ EXCEPT !.phase = "nonce_read", !.nonce = chain_count]]
    /\ UNCHANGED <<registered, process_up, chain_count, sent, overlapped>>
    /\ RunIdle

\* the node takes a transaction whose nonce is not below the count; when it holds
\* one of the same nonce already it takes the new one in its place only at a higher
\* price, which a run can offer when it asks the network for the price
NodeAccepts(t) ==
    /\ tasks[t].nonce >= chain_count
    /\ (\E u \in Pending : tasks[u].nonce = tasks[t].nonce) => ~gas_price.some

\* send_transaction: the node takes the transaction and returns its hash
TaskSends(t) ==
    /\ process_up
    /\ tasks[t].phase = "nonce_read"
    /\ NodeAccepts(t)
    /\ tasks' = [u \in 1..MaxTasks |->
                   IF u = t THEN [tasks[t] EXCEPT !.phase = "polling", !.tx = "pending"]
                   ELSE IF u \in Pending /\ tasks[u].nonce = tasks[t].nonce
                        THEN [tasks[u] EXCEPT !.tx = "replaced"]
                        ELSE tasks[u]]
    /\ sent' = Append(sent, [task |-> t, nonce |-> tasks[t].nonce])
    /\ UNCHANGED <<registered, process_up, chain_count, overlapped>>
    /\ RunIdle

\* send_transaction fails: the node refuses the transaction or the request fails
TaskSendFails(t) ==
    /\ process_up
    /\ tasks[t].phase = "nonce_read"
    /\ Finish(t, "Err", "none", "none")
    /\ UNCHANGED <<chain_count, sent, overlapped>>
    /\ RunIdle

\* the chain mines the waiting transaction of the next nonce
Mine(t) ==
    /\ t \in Pending
    /\ tasks[t].nonce = chain_count
    /\ chain_count' = chain_count + 1
    /\ tasks' = [tasks EXCEPT ![t] = [@ EXCEPT !.tx = "mined"]]
    /\ UNCHANGED <<registered, process_up, sent, overlapped>>
    /\ RunIdle

\* wait_for_confirmation gets the receipt; the run logs it and returns Ok(())
TaskConfirmed(t) ==
    /\ process_up
    /\ tasks[t].phase = "polling"
    /\ tasks[t].tx = "mined"
    /\ Finish(t, "Ok", "Ok", "mined")
    /\ UNCHANGED <<chain_count, sent, overlapped>>
    /\ RunIdle

\* wait_for_confirmation times out with no receipt seen; the run handles only
\* Ok(receipt) and returns Ok(()).  The transaction stays where it is.
TaskTimesOut(t) ==
    /\ process_up
    /\ tasks[t].phase = "polling"
    /\ tasks[t].tx # "mined"
    /\ Finish(t, "Ok", "ConfirmationTimeout", tasks[t].tx)
    /\ UNCHANGED <<chain_count, sent, overlapped>>
    /\ RunIdle

\* a receipt request fails and wait_for_confirmation returns its error; the run
\* handles only Ok(receipt) and returns Ok(())
TaskPollFails(t) ==
    /\ process_up
    /\ tasks[t].phase = "polling"
    /\ Finish(t, "Ok", "ReceiptQueryFailed", tasks[t].tx)
    /\ UNCHANGED <<chain_count, sent, overlapped>>
    /\ RunIdle

NextSched ==
    \/ \E job \in Jobs : Trigger(job)
    \/ \E t \in 1..MaxTasks : TaskFails(t)
    \/ \E t \in 1..MaxTasks : TaskReadsNonce(t)
    \/ \E t \in 1..MaxTasks : TaskSends(t)
    \/ \E t \in 1..MaxTasks : TaskSendFails(t)
    \/ \E t \in 1..MaxTasks : Mine(t)
    \/ \E t \in 1..MaxTasks : TaskConfirmed(t)
    \/ \E t \in 1..MaxTasks : TaskTimesOut(t)
    \/ \E t \in 1..MaxTasks : TaskPollFails(t)

SchedSpec == InitSched /\ [][NextSched]_vars

(***************************************************************************)
(* Properties of the scheduled runs                                          *)
(***************************************************************************)
\* the runs in progress
Running == {t \in 1..MaxTasks : InProgress(tasks[t])}

\* C14: at any time at most one run (submission and wait for confirmation) is in
\* progress: no trigger of a registered job starts a run while an earlier run is
\* still submitting or polling.
C14_SingleRunInFlight ==
    /\ Cardinality(Running) <= 1
    /\ ~overlapped

\* the run of a task ended in a failure: its submission failed, or its wait for
\* the confirmation timed out or met a transport error
Failed(task) ==
    /\ task.phase = "finished"
    /\ task.result = "Err" \/ task.wait \in {"ConfirmationTimeout", "ReceiptQueryFailed"}

\* C15: every failure of a scheduled run is caught inside the job (the job logs
\* and completes), never ends the process or removes the job, and leaves the
\* scheduler able to fire the next trigger, whose run starts from the same
\* configuration with nothing carried over from the failed run.
C15_FailureContained ==
    /\ [](/\ process_up
          /\ \A t \in 1..MaxTasks : Failed(tasks[t]) =>
                /\ tasks[t].log \in {"info", "warn"}
                /\ tasks[t].job \in registered
                /\ (FreeSlots # {} /\ Running = {}) =>
                      \A job \in registered : ENABLED Trigger(job))
    /\ [][/\ registered' = registered
          /\ config' = config
          /\ \A t \in 1..MaxTasks :
                (tasks[t].phase = "idle" /\ tasks'[t].phase # "idle") =>
                   \E job \in registered :
                      tasks'[t] = [NoTask EXCEPT !.job = job, !.phase = "submitting"]
         ]_vars

\* C15 witness: a run of the daily job failed, the job logged the failure, and the
\* next trigger has started a run after it
C15_Witness ==
    /\ Failed(tasks[1])
    /\ tasks[1].job = "daily"
    /\ tasks[1].result = "Err"
    /\ tasks[1].log = "warn"
    /\ tasks[2].phase = "submitting"
    /\ ~overlapped

\* C20: when every run finishes before the next one starts, no two transactions
\* sent by the process carry the same nonce, also after a run that ended in a
\* confirmation timeout with its transaction still pending.
C20_NoncesDistinct ==
    ~overlapped =>
       \A i, j \in 1..Len(sent) : i # j => sent[i].nonce # sent[j].nonce

(***************************************************************************)
(* Properties of the wait for the confirmation, under fairness              *)
(***************************************************************************)
\* the number of polls the claim allows: timeout / interval + 1
ClaimedMaxPolls(cid) == (ClaimedTimeout(cid) \div ClaimedInterval(cid)) + 1

\* C22: wait_for_confirmation terminates when every request returns: it polls at
\* least once before it can time out and at most timeout / interval + 1 times (61
\* on local networks and 61 elsewhere) before it returns a receipt, the timeout
\* error, or the error of a failed request.
C22_WaitTerminates ==
    /\ [](PollCount <= ClaimedMaxPolls(chain_id) /\ ClaimedMaxPolls(chain_id) = 61)
    /\ [](wait_result.st # "none" =>
            /\ PollCount >= 1
            /\ \/ wait_result.st = "Ok" /\ receipt.some
               \/ wait_result.kind \in {"ConfirmationTimeout", "ReceiptQueryFailed"})
    /\ ((pc \in {"loop", "sleep"}) ~> (pc = "done" /\ wait_result.st # "none"))

\* C22 witness: the wait timed out after the most polls it can make
C22_Witness ==
    /\ pc = "done"
    /\ wait_result.kind = "ConfirmationTimeout"
    /\ PollCount = 61

(***************************************************************************)
(* The simulation step over every error text: the read-only call of         *)
(* simulate_distribution and, when it fails, the classification of its      *)
(* error by parse_revert_reason.                                            *)
(***************************************************************************)
\* a provider error with any of the known substrings in its Debug rendering
AllProviderErrors == {[dbg |-> d] : d \in SUBSET Patterns}

\* simulate_distribution is entered: pre_distribution_checks has returned Ok
InitParse ==
    /\ caller = "job"
    /\ SnapshotIdle
    /\ SchedIdle
    /\ chain_id \in ReadsChainIds
    /\ gas_limit = U256From(500000)
    /\ gas_price \in {None, Some(ParseUnitsGwei(25).val)}
    /\ pc = "simulate"
    /\ calls = StatusCalls
    /\ logged = {}
    /\ sim_rpc = "none"
    /\ sim_request = NoRequest
    /\ sim_result = NoResult
    /\ sim_error = NoCause
    /\ est_rpc = NoQuery
    /\ gas_estimate = U256Zero
    /\ gas_with_buffer = U256Zero
    /\ nonce = 0
    /\ price_rpc = NoQuery
    /\ tx_request = NoTx
    /\ tx_hash = "none"
    /\ elapsed = 0
    /\ rpc_delay = 0
    /\ receipt = NoReceipt
    /\ lookup_rpc = "none"
    /\ submit_result = NoResult
    /\ wait_result = NoResult
    /\ run_result = NoResult

\* simulate_distribution: the read-only call and the match on its answer; Ok(_)
\* returns Ok(()), Err(e) logs the error and goes on to parse_revert_reason(&e)
SimulationCall ==
    /\ pc = "simulate"
    /\ calls' = Append(calls, "eth_call:distributeDailyRewards")
    /\ sim_request' = simulate_distribution_request(gas_limit, gas_price)
    /\ \/ /\ sim_rpc' = "ok"
          /\ sim_error' = NoCause
          /\ sim_result' = simulate_distribution([ok |-> TRUE, err |-> NoCause])
          /\ logged' = logged
          /\ pc' = "estimate"
       \/ \E e \in AllProviderErrors :
             /\ sim_rpc' = "err"
             /\ sim_error' = e
             /\ sim_result' = sim_result
             /\ logged' = logged \cup {"simulation_failed"}
             /\ pc' = "parse"
    /\ UNCHANGED <<caller, config, snapshot, sched, est_rpc, gas_estimate, gas_with_buffer, nonce,
                   price_rpc, tx_request, tx_hash, timing, results>>

\* simulate_distribution, Err arm: parse_revert_reason classifies the error or not,
\* the error built from it is returned, and the run logs it and returns it
ParseRevertReason ==
    /\ pc = "parse"
    /\ LET r == simulate_distribution([ok |-> FALSE, err |-> sim_error])
       IN  /\ sim_result' = r
           /\ SubmissionFails(r)
    /\ logged' = logged \cup {failure_line(caller)}
    /\ UNCHANGED <<caller, config, snapshot, sched, calls, sim_rpc, sim_request, sim_error, est_rpc,
                   gas_estimate, gas_with_buffer, nonce, price_rpc, tx_request, tx_hash,
                   timing, receipt, lookup_rpc, wait_result>>

NextParse ==
    \/ SimulationCall
    \/ ParseRevertReason

ParseSpec == InitParse /\ [][NextParse]_vars

(***************************************************************************)
(* Properties of the classification                                         *)
(***************************************************************************)
\* the error text of the failed call contains the substring
Has(text) == text \in sim_error.dbg

\* C23: parse_revert_reason classifies only error texts that contain "revert", and
\* looks for the patterns in a fixed order: ownership, then paused, then time-gated
\* ("Too early" or "time"), then insufficient balance ("Insufficient" or "balance"),
\* then not active; the first pattern that matches gives the reason, and a text
\* without "revert" or without any pattern is not classified.
C23_PatternPriority ==
    (pc = "done" /\ sim_rpc = "err") =>
       LET reason == sim_result.reason
           timed == Has("Too early") \/ Has("time")
           short == Has("Insufficient") \/ Has("balance")
       IN  /\ ~Has("revert") => reason = "none"
           /\ (Has("revert") /\ Has(OwnableText)) => reason = "OnlyOwner"
           /\ (Has("revert") /\ ~Has(OwnableText) /\ Has(PausableText)) => reason = "Paused"
           /\ (Has("revert") /\ ~Has(OwnableText) /\ ~Has(PausableText) /\ timed) =>
                 reason = "TooEarly"
           /\ (Has("revert") /\ ~Has(OwnableText) /\ ~Has(PausableText) /\ ~timed /\ short) =>
                 reason = "InsufficientBalance"
           /\ (Has("revert") /\ ~Has(OwnableText) /\ ~Has(PausableText) /\ ~timed /\ ~short
                  /\ Has("Not active")) => reason = "NotActive"
           /\ (Has("revert") /\ sim_error.dbg \cap ReasonTexts = {}) => reason = "none"
           /\ (reason = "none") <=> (sim_result.kind = "SimulationFailed")

\* C23 witness: a revert whose text matches the ownership, the paused and the
\* time-gated pattern at once was classified by the first of them
C23_Witness ==
    /\ pc = "done"
    /\ sim_error.dbg = {"revert", OwnableText, PausableText, "time"}
    /\ sim_result.reason = "OnlyOwner"
    /\ submit_result = sim_result

(***************************************************************************)
(* The run under its two callers: main.rs distribute_daily_rewards and      *)
(* ContractDebugger::manual_distribute call the same pipeline and the same  *)
(* wait, and differ in what they log.                                       *)
(***************************************************************************)
\* the run under either caller, before its first step
InitCallers ==
    /\ SnapshotIdle
    /\ SchedIdle
    /\ caller \in Callers
    /\ chain_id \in ReadsChainIds
    /\ gas_limit = U256From(500000)
    /\ gas_price \in {None, Some(ParseUnitsGwei(25).val)}
    /\ pc = "idle"
    /\ calls = << >>
    /\ logged = {}
    /\ sim_rpc = "none"
    /\ sim_request = NoRequest
    /\ sim_result = NoResult
    /\ sim_error = NoCause
    /\ est_rpc = NoQuery
    /\ gas_estimate = U256Zero
    /\ gas_with_buffer = U256Zero
    /\ nonce = 0
    /\ price_rpc = NoQuery
    /\ tx_request = NoTx
    /\ tx_hash = "none"
    /\ elapsed = 0
    /\ rpc_delay = 0
    /\ receipt = NoReceipt
    /\ lookup_rpc = "none"
    /\ submit_result = NoResult
    /\ wait_result = NoResult
    /\ run_result = NoResult

CallersSpec == InitCallers /\ [][Next]_vars

(***************************************************************************)
(* Properties of the run's result                                           *)
(***************************************************************************)
\* C24: the result of a run, under main.rs as under manual_distribute, is an error
\* exactly when the submission pipeline returned an error; the wait is entered
\* only after a successful submission, and whatever it returns (a receipt of a
\* successful or of a failed transaction, the timeout, a request error) the run
\* returns success.
C24_RunResultFromSubmission ==
    /\ (run_result.st = "Err") <=> (submit_result.st = "Err")
    /\ run_result.st = "Err" => run_result = submit_result
    /\ (pc \in {"loop", "sleep"} \/ PollCount > 0 \/ wait_result.st # "none") =>
          /\ submit_result = Ok
          /\ SendCount = 1
    /\ wait_result.st # "none" =>
          /\ pc = "done"
          /\ run_result = Ok

\* C24 witness: under manual_distribute the wait timed out, the error was logged
\* and the run returned success
C24_Witness ==
    /\ caller = "manual"
    /\ pc = "done"
    /\ wait_result.kind = "ConfirmationTimeout"
    /\ "wait_failed" \in logged
    /\ run_result = Ok

====
